---- MODULE Spec2Model ----
(***************************************************************************)
(* Model of nas_pick_download.py: an interactive browser of a remote       *)
(* directory tree (ssh + ls), a picker (fzf) and a transfer (rsync / scp). *)
(* Strings are sequences of one-character strings, so that strip(),        *)
(* splitlines() and pathlib's parsing are computed, not assumed.           *)
(***************************************************************************)
EXTENDS Integers, Sequences, FiniteSets, TLC

VARIABLES
    REMOTE_ROOT,   \* cfg["remote_root"], fixed at start-up
    USE_RSYNC,     \* cfg["use_rsync"], fixed at start-up
    remote_dir,    \* main: the directory being browsed
    pc,            \* position of main: "list", "pick", "mkdir", "xfer", "done"
    listed_dir,    \* the directory the last list_remote call was made for
    ssh_cmd,       \* list_remote: the command line given to run
    ls_out,        \* the lines the remote listing printed in this iteration
    items,         \* main: result of the last list_remote call
    lines,         \* main: the candidate lines handed to pick_with_fzf
    fzf_lines,     \* the lines the picker printed in this iteration
    fzf_status,    \* the picker's exit status in this iteration, NOT_RUN
                   \* until it has run
    key,           \* main: the key returned by pick_with_fzf
    choice,        \* main: the selection returned by pick_with_fzf
    ups,           \* the number of picks made so far when all of them chose
                   \* the parent marker above "/", NotCounting otherwise
    last_desc,     \* <<d>> when the last pick was a plain confirm of a listed
                   \* directory line made while browsing d, else << >>
    outcome,       \* "none", "NoSelection", "FileDownloadRequested",
                   \* "DirectoryDownloadRequested"
    req,           \* the arguments of the download call, NoReq before
    mkdir_done,    \* os.makedirs(local_dest) has returned
    cmd,           \* the transfer command given to check_call, NoCmd before
    error,         \* the exception that left main, "none" otherwise
    exit_code      \* the process exit status, RUNNING while it runs

vars == <<REMOTE_ROOT, USE_RSYNC, remote_dir, pc, listed_dir, ssh_cmd, ls_out,
          items, lines, fzf_lines, fzf_status, key, choice, ups, last_desc,
          outcome, req, mkdir_done, cmd, error, exit_code>>

----
\* Bounds of the model.

\* longest listing (in lines) the remote ls prints
MaxEntries == 1
\* deepest directory (in path components) the session descends to
MaxDepth == 2
\* longest listing (in lines) given to the lister and the renderer alone
MaxLsLines == 3
\* longest remote root (in characters after the leading separator) whose
\* listing command is built
MaxQuoteLen == 2

----
\* Characters and strings.

SL == "/"
SP == " "
NL == "\n"

ParentMarker == <<".", ".", "/">>
ctrl_d == <<"c", "t", "r", "l", "-", "d">>

\* str.strip() removes these characters (the ones the model's alphabet has)
IsSpace(c) == c \in {" ", "\n", "\t"}

RECURSIVE lstrip(_)
lstrip(s) ==
    IF s = << >> THEN s
    ELSE IF IsSpace(Head(s)) THEN lstrip(Tail(s)) ELSE s

RECURSIVE rstrip(_)
rstrip(s) ==
    IF s = << >> THEN s
    ELSE IF IsSpace(s[Len(s)]) THEN rstrip(SubSeq(s, 1, Len(s) - 1)) ELSE s

strip(s) == rstrip(lstrip(s))

\* index of the first occurrence of character c in s, 0 when there is none
IndexOf(s, c) ==
    IF \E i \in 1..Len(s) : s[i] = c
    THEN CHOOSE i \in 1..Len(s) : s[i] = c /\ \A j \in 1..(i - 1) : s[j] # c
    ELSE 0

\* str.splitlines(): lines without their terminators, no final empty line
RECURSIVE splitlines(_)
splitlines(t) ==
    IF t = << >> THEN << >>
    ELSE LET i == IndexOf(t, NL) IN
         IF i = 0 THEN <<t>>
         ELSE <<SubSeq(t, 1, i - 1)>> \o splitlines(SubSeq(t, i + 1, Len(t)))

\* "".join(seq)
RECURSIVE join(_)
join(seq) == IF seq = << >> THEN << >> ELSE Head(seq) \o join(Tail(seq))

endswith(s, c) == s # << >> /\ s[Len(s)] = c

----
\* pathlib.PurePosixPath

\* number of leading separators of s
RECURSIVE LeadingSeps(_)
LeadingSeps(s) ==
    IF s = << >> \/ Head(s) # SL THEN 0 ELSE 1 + LeadingSeps(Tail(s))

\* the root of a parsed path: exactly two leading separators are kept
path_root(s) ==
    LET n == LeadingSeps(s) IN
    IF n = 0 THEN << >> ELSE IF n = 2 THEN <<SL, SL>> ELSE <<SL>>

\* s.split("/")
RECURSIVE split_sep(_)
split_sep(s) ==
    LET i == IndexOf(s, SL) IN
    IF i = 0 THEN <<s>>
    ELSE <<SubSeq(s, 1, i - 1)>> \o split_sep(SubSeq(s, i + 1, Len(s)))

\* the components of a parsed path: empty and "." components are dropped
path_parts(s) ==
    SelectSeq(split_sep(s), LAMBDA x : x # << >> /\ x # <<".">>)

RECURSIVE join_sep(_)
join_sep(parts) ==
    IF parts = << >> THEN << >>
    ELSE IF Len(parts) = 1 THEN parts[1]
    ELSE parts[1] \o <<SL>> \o join_sep(Tail(parts))

\* str(path)
path_str(root, parts) ==
    IF root = << >> /\ parts = << >> THEN <<".">> ELSE root \o join_sep(parts)

\* a parent computed on the string: remote_dir.rsplit("/", 1)[0]
Path_parent_rsplit(s) ==
    LET idx == { i \in 1..Len(s) : s[i] = SL } IN
    IF idx = {} THEN s
    ELSE SubSeq(s, 1, (CHOOSE i \in idx : \A j \in idx : j <= i) - 1)

\* str(Path(s).parent)
Path_parent(s) ==
    LET r == path_root(s)
        p == path_parts(s)
    IN  IF p = << >> THEN path_str(r, p)
        ELSE path_str(r, SubSeq(p, 1, Len(p) - 1))

\* str(Path(a) / b)
Path_join(a, b) ==
    IF path_root(b) # << >> THEN path_str(path_root(b), path_parts(b))
    ELSE path_str(path_root(a), path_parts(a) \o path_parts(b))

----
\* Configuration (load_config) and the environment's inputs.

NAS_HOST == <<"n">>
LOCAL_DEST == <<"/", "d">>

\* values of cfg["remote_root"]: absolute paths, one written with a
\* trailing separator
Roots ==
    { <<SL>>, <<SL, "a">>, <<SL, "a", SL, "a">>, <<SL, "a", SL>> }

\* lines the remote "ls -1p" may print: directories "a", " a", " " and " ..",
\* files "f", "f " and " ", and an empty line
EntryLines ==
    { <<"a", SL>>, <<SP, "a", SL>>, <<SP, SL>>, <<SP, ".", ".", SL>>,
      <<"f">>, <<"f", SP>>, <<SP>>, << >> }

SeqsUpTo(S, n) == UNION { [1..k -> S] : k \in 0..n }

\* the text of a stream on which the given lines were printed
PrintLines(ls) == join([i \in 1..Len(ls) |-> ls[i] \o <<NL>>])

\* stdout of a successful remote listing
LsOutputs == { PrintLines(ls) : ls \in SeqsUpTo(EntryLines, MaxEntries) }

\* exit statuses of fzf: 0 accepted, 2 error, 130 interrupted (Esc, ctrl-c)
FZF_OK == 0
FZF_ERROR == 2
FZF_INTERRUPT == 130
NOT_RUN == -1
RUNNING == -1
NotCounting == -1

NoReq == [remote_path |-> << >>, is_dir |-> FALSE, set |-> FALSE]
NoCmd == [tool |-> "none", flags |-> << >>, src |-> << >>, dst |-> << >>]

\* what fzf shows: the lines of its input
Candidates(ls) == splitlines(join(ls))

Range(f) == { f[i] : i \in DOMAIN f }

\* <<exit status, printed lines>> of one run of the picker on candidates ls:
\* nothing printed when it is interrupted or fails; otherwise the --expect
\* key line and the chosen candidate, a test double's single line, a third
\* line after the selection, or an empty or blank selection line
FzfResults(ls) ==
    LET cands == Range(Candidates(ls))
        keys == { << >>, ctrl_d }
    IN  { <<FZF_INTERRUPT, << >> >>, <<FZF_ERROR, << >> >> }
        \cup { <<FZF_OK, <<k, c>> >> : k \in keys, c \in cands }
        \cup { <<FZF_OK, <<c>> >> : c \in cands }
        \cup { <<FZF_OK, <<k, c, ParentMarker>> >> : k \in keys, c \in cands }
        \cup { <<FZF_OK, <<k, e>> >> : k \in keys, e \in { << >>, <<SP>> } }

----
\* Shell command lines: shlex.quote, and how a POSIX shell splits a command
\* line into words and operators (run uses shell=True; ssh hands its
\* arguments, joined by spaces, to the shell of the remote host).

SQ == "'"
DQ == "\""

\* the characters of the model's alphabet outside shlex's safe set
\* [A-Za-z0-9_@%+=:,./-]
IsUnsafe(c) == c \in {SP, SQ, DQ, ";", "&", NL, "\t"}

\* s.replace("'", "'\"'\"'")
RECURSIVE replace_quotes(_)
replace_quotes(s) ==
    IF s = << >> THEN << >>
    ELSE (IF Head(s) = SQ THEN <<SQ, DQ, SQ, DQ, SQ>> ELSE <<Head(s)>>)
         \o replace_quotes(Tail(s))

\* shlex.quote(s)
shlex_quote(s) ==
    IF s = << >> THEN <<SQ, SQ>>
    ELSE IF \A i \in 1..Len(s) : ~IsUnsafe(s[i]) THEN s
    ELSE <<SQ>> \o replace_quotes(s) \o <<SQ>>

Word(w) == [kind |-> "word", text |-> w]
Operator(o) == [kind |-> "op", text |-> o]
SyntaxError == [kind |-> "error", text |-> << >>]

\* the tokens of command line t: blanks separate words, quotes group
\* characters into a word, and ; ;; & && and an unquoted newline are
\* operators. mode is "n" outside quotes, "s" inside single and "d" inside
\* double quotes; cur is the word being read when open holds; acc are the
\* tokens read so far. A quote left open at the end is a syntax error
RECURSIVE sh_scan(_, _, _, _, _)
sh_scan(t, mode, cur, open, acc) ==
    LET flushed == IF open THEN acc \o <<Word(cur)>> ELSE acc IN
    IF t = << >> THEN
        IF mode = "n" THEN flushed ELSE acc \o <<SyntaxError>>
    ELSE LET c == Head(t)
             rest == Tail(t)
             two == rest # << >> /\ Head(rest) = c
         IN
         IF mode = "s" THEN
            IF c = SQ THEN sh_scan(rest, "n", cur, TRUE, acc)
            ELSE sh_scan(rest, "s", cur \o <<c>>, TRUE, acc)
         ELSE IF mode = "d" THEN
            IF c = DQ THEN sh_scan(rest, "n", cur, TRUE, acc)
            ELSE sh_scan(rest, "d", cur \o <<c>>, TRUE, acc)
         ELSE IF c = SQ THEN sh_scan(rest, "s", cur, TRUE, acc)
         ELSE IF c = DQ THEN sh_scan(rest, "d", cur, TRUE, acc)
         ELSE IF c \in {SP, "\t"} THEN
            sh_scan(rest, "n", << >>, FALSE, flushed)
         ELSE IF c = NL THEN
            sh_scan(rest, "n", << >>, FALSE, flushed \o <<Operator(<<NL>>)>>)
         ELSE IF c \in {";", "&"} THEN
            IF two
            THEN sh_scan(Tail(rest), "n", << >>, FALSE,
                         flushed \o <<Operator(<<c, c>>)>>)
            ELSE sh_scan(rest, "n", << >>, FALSE,
                         flushed \o <<Operator(<<c>>)>>)
         ELSE sh_scan(rest, "n", cur \o <<c>>, TRUE, acc)

\* the shell's grammar of lists of simple commands, read from token i on:
\* st is "start" before a command, "words" inside one and "need" after &&,
\* where a command must follow; cut is the number of tokens in the complete
\* lines read so far. The result is <<e, cut>>: e = 0 when the shell accepts
\* the tokens, otherwise the index of the token it rejects (one past the
\* last when the input ends too early)
RECURSIVE sh_parse(_, _, _, _)
sh_parse(toks, i, st, cut) ==
    IF i > Len(toks) THEN
        IF st = "need" THEN <<i, cut>> ELSE <<0, cut>>
    ELSE LET k == toks[i] IN
         IF k.kind = "error" THEN <<i, cut>>
         ELSE IF k.kind = "word" THEN sh_parse(toks, i + 1, "words", cut)
         ELSE IF k.text = <<NL>> THEN
            IF st = "need" THEN sh_parse(toks, i + 1, "need", cut)
            ELSE sh_parse(toks, i + 1, "start", i)
         ELSE IF k.text \in { <<";">>, <<"&">> } /\ st = "words" THEN
            sh_parse(toks, i + 1, "start", cut)
         ELSE IF k.text = <<"&", "&">> /\ st = "words" THEN
            sh_parse(toks, i + 1, "need", cut)
         ELSE <<i, cut>>

\* what the shell runs of command line t: its tokens when it accepts them,
\* otherwise the tokens of the complete lines before the one it rejects,
\* and the syntax error
sh_tokens(t) ==
    LET toks == sh_scan(t, "n", << >>, FALSE, << >>)
        p == sh_parse(toks, 1, "start", 0)
    IN IF p[1] = 0 THEN toks ELSE SubSeq(toks, 1, p[2]) \o <<SyntaxError>>

\* " ".join(args)
RECURSIVE join_space(_)
join_space(args) ==
    IF args = << >> THEN << >>
    ELSE IF Len(args) = 1 THEN args[1]
    ELSE args[1] \o <<SP>> \o join_space(Tail(args))

\* the command line the remote shell reads when the local shell runs the
\* command line c, "ssh host arg...": the arguments after the host, joined
\* by single spaces
ssh_remote_command(c) ==
    LET toks == sh_tokens(c) IN
    join_space([i \in 1..(Len(toks) - 2) |-> toks[i + 2].text])

----
\* The functions of the program.

\* list_remote: cmd = f"ssh {quote(nas_host)} {quote(f'cd {remote_dir} && ls -1p')}"
list_remote_cmd(nas_host, rdir) ==
    <<"s", "s", "h", SP>> \o shlex_quote(nas_host) \o <<SP>>
    \o shlex_quote(<<"c", "d", SP>> \o rdir
                   \o <<SP, "&", "&", SP, "l", "s", SP, "-", "1", "p">>)

\* list_remote: the non-blank lines of the listing command's stdout
list_remote(out) ==
    SelectSeq(splitlines(out), LAMBDA x : strip(x) # << >>)

\* a rendering that puts the parent marker last
candidate_lines_marker_last(its) ==
    [i \in 1..Len(its) |-> its[i] \o <<NL>>] \o <<ParentMarker \o <<NL>> >>

\* main: lines = ["../\n"] + [x + "\n" for x in items]
candidate_lines(its) ==
    <<ParentMarker \o <<NL>> >> \o [i \in 1..Len(its) |-> its[i] \o <<NL>>]

\* a decoding that leaves the selection line as printed
pick_with_fzf_raw_selection(stdout) ==
    LET out == splitlines(stdout) IN
    IF out = << >> THEN << << >>, << >> >>
    ELSE IF Len(out) = 1 THEN << << >>, out[1] >>
    ELSE << strip(out[1]), out[2] >>

\* pick_with_fzf: <<key, selection>> decoded from the picker's stdout
pick_with_fzf(stdout) ==
    LET out == splitlines(stdout) IN
    IF out = << >> THEN << << >>, << >> >>
    ELSE IF Len(out) = 1 THEN << << >>, strip(out[1]) >>
    ELSE << strip(out[1]), strip(out[2]) >>

\* download_rsync: the command given to check_call
download_rsync(nas_host, remote_path, local_dest) ==
    [tool |-> "rsync", flags |-> <<"-avP", "--protect-args">>,
     src |-> nas_host \o <<":">> \o remote_path, dst |-> local_dest \o <<SL>>]

\* a secure copy that is always recursive
download_scp_always_r(nas_host, remote_path, local_dest, is_dir) ==
    [tool |-> "scp", flags |-> <<"-r", "-p">>,
     src |-> nas_host \o <<":">> \o remote_path, dst |-> local_dest \o <<SL>>]

\* download_scp: the command given to check_call
download_scp(nas_host, remote_path, local_dest, is_dir) ==
    [tool |-> "scp",
     flags |-> (IF is_dir THEN <<"-r">> ELSE << >>) \o <<"-p">>,
     src |-> nas_host \o <<":">> \o remote_path, dst |-> local_dest \o <<SL>>]

\* download: the strategy chosen by use_rsync
download(nas_host, use_rsync, remote_path, local_dest, is_dir) ==
    IF use_rsync THEN download_rsync(nas_host, remote_path, local_dest)
    ELSE download_scp(nas_host, remote_path, local_dest, is_dir)

----
\* The state machine of main.

\* main before its first iteration: remote_dir = REMOTE_ROOT
Started ==
    /\ remote_dir = REMOTE_ROOT
    /\ pc = "list"
    /\ listed_dir = << >>
    /\ ssh_cmd = << >>
    /\ ls_out = << >>
    /\ key = << >>
    /\ choice = << >>
    /\ ups = 0
    /\ items = << >>
    /\ lines = << >>
    /\ fzf_lines = << >>
    /\ fzf_status = NOT_RUN
    /\ last_desc = << >>
    /\ outcome = "none"
    /\ req = NoReq
    /\ mkdir_done = FALSE
    /\ cmd = NoCmd
    /\ error = "none"
    /\ exit_code = RUNNING

Init ==
    /\ REMOTE_ROOT \in Roots
    /\ USE_RSYNC \in BOOLEAN
    /\ Started

config == <<REMOTE_ROOT, USE_RSYNC>>

\* what the listing and the pick of an iteration leave behind
browsed == <<ssh_cmd, ls_out, key, choice, ups>>

\* items = list_remote(...); lines = [...]: the remote command exits 0
\* after printing the given lines
listing_returns(printed) ==
    /\ pc = "list"
    /\ ls_out' = printed
    /\ items' = list_remote(PrintLines(printed))
    /\ lines' = candidate_lines(list_remote(PrintLines(printed)))
    /\ ssh_cmd' = list_remote_cmd(NAS_HOST, remote_dir)
    /\ listed_dir' = remote_dir
    /\ fzf_lines' = << >>
    /\ fzf_status' = NOT_RUN
    /\ pc' = "pick"
    /\ UNCHANGED <<config, remote_dir, key, choice, ups, last_desc, outcome,
                   req, mkdir_done, cmd, error, exit_code>>

main_list_remote ==
    \E printed \in SeqsUpTo(EntryLines, MaxEntries) : listing_returns(printed)

\* the same step on a longer listing
main_list_remote_long ==
    \E printed \in SeqsUpTo(EntryLines, MaxLsLines) : listing_returns(printed)

\* a failed listing that is swallowed and taken for an empty directory
main_list_remote_swallowed ==
    /\ pc = "list"
    /\ ssh_cmd' = list_remote_cmd(NAS_HOST, remote_dir)
    /\ ls_out' = << >>
    /\ listed_dir' = remote_dir
    /\ items' = << >>
    /\ lines' = candidate_lines(<< >>)
    /\ fzf_lines' = << >>
    /\ fzf_status' = NOT_RUN
    /\ error' = "RuntimeError"
    /\ pc' = "pick"
    /\ UNCHANGED <<config, remote_dir, key, choice, ups, last_desc, outcome,
                   req, mkdir_done, cmd, exit_code>>

\* run raises RuntimeError: the remote command exits nonzero, and the
\* exception leaves main
main_list_remote_fails ==
    /\ pc = "list"
    /\ ssh_cmd' = list_remote_cmd(NAS_HOST, remote_dir)
    /\ ls_out' = << >>
    /\ listed_dir' = remote_dir
    /\ fzf_lines' = << >>
    /\ fzf_status' = NOT_RUN
    /\ error' = "RuntimeError"
    /\ exit_code' = 1
    /\ pc' = "done"
    /\ UNCHANGED <<config, remote_dir, items, lines, key, choice, ups,
                   last_desc, outcome, req, mkdir_done, cmd>>

\* the pick is a plain confirm (or a single line) of a listed directory line
IsPlainDirPick(out, its) ==
    /\ \/ Len(out) = 1 /\ out[1] \in Range(its) /\ endswith(out[1], SL)
       \/ Len(out) >= 2 /\ out[1] = << >> /\ out[2] \in Range(its)
                        /\ endswith(out[2], SL)

\* what every pick records: the picker's run, and whether it was a descent
Picked(r) ==
    /\ fzf_status' = r[1]
    /\ fzf_lines' = r[2]
    /\ key' = pick_with_fzf(PrintLines(r[2]))[1]
    /\ choice' = pick_with_fzf(PrintLines(r[2]))[2]
    /\ last_desc' = IF IsPlainDirPick(r[2], items) THEN <<remote_dir>> ELSE << >>

\* subprocess.run raises OSError: fzf cannot be started, and the exception
\* leaves main before anything is decoded
pick_with_fzf_not_started ==
    /\ pc = "pick"
    /\ error' = "OSError"
    /\ exit_code' = 1
    /\ pc' = "done"
    /\ UNCHANGED <<config, browsed, remote_dir, listed_dir, items, lines,
                   fzf_lines, fzf_status, last_desc, outcome, req, mkdir_done,
                   cmd>>

\* a cancellation reported as a failure: return 1
main_no_selection_exit1 ==
    /\ pc = "pick"
    /\ \E r \in FzfResults(lines) :
        LET the_choice == pick_with_fzf(PrintLines(r[2]))[2] IN
        /\ the_choice = << >>
        /\ Picked(r)
    /\ outcome' = "NoSelection"
    /\ exit_code' = 1
    /\ pc' = "done"
    /\ UNCHANGED <<config, remote_dir, listed_dir, ssh_cmd, ls_out, items,
                   lines, ups, req, mkdir_done, cmd, error>>

\* if not choice: print("No selection, exiting."); return 0
main_no_selection ==
    /\ pc = "pick"
    /\ \E r \in FzfResults(lines) :
        LET the_choice == pick_with_fzf(PrintLines(r[2]))[2] IN
        /\ the_choice = << >>
        /\ Picked(r)
    /\ outcome' = "NoSelection"
    /\ exit_code' = 0
    /\ pc' = "done"
    /\ UNCHANGED <<config, remote_dir, listed_dir, ssh_cmd, ls_out, items,
                   lines, ups, req, mkdir_done, cmd, error>>

\* an ascent that stops at the configured root
main_parent_confined ==
    /\ pc = "pick"
    /\ \E r \in FzfResults(lines) :
        LET the_choice == pick_with_fzf(PrintLines(r[2]))[2] IN
        /\ the_choice # << >>
        /\ the_choice = ParentMarker
        /\ Picked(r)
    /\ remote_dir' = IF remote_dir # <<SL>> /\ remote_dir # REMOTE_ROOT
                     THEN Path_parent(remote_dir)
                     ELSE remote_dir
    /\ ups' = IF ups # NotCounting /\ remote_dir # <<SL>> THEN ups + 1 ELSE ups
    /\ pc' = "list"
    /\ UNCHANGED <<config, listed_dir, ssh_cmd, ls_out, items, lines, outcome,
                   req, mkdir_done, cmd, error, exit_code>>

\* if choice == "../": ascend unless at "/"; continue
main_parent ==
    /\ pc = "pick"
    /\ \E r \in FzfResults(lines) :
        LET the_choice == pick_with_fzf(PrintLines(r[2]))[2] IN
        /\ the_choice # << >>
        /\ the_choice = ParentMarker
        /\ Picked(r)
    /\ remote_dir' = IF remote_dir # <<SL>> THEN Path_parent(remote_dir)
                     ELSE remote_dir
    /\ ups' = IF ups # NotCounting /\ remote_dir # <<SL>> THEN ups + 1 ELSE ups
    /\ pc' = "list"
    /\ UNCHANGED <<config, listed_dir, ssh_cmd, ls_out, items, lines, outcome,
                   req, mkdir_done, cmd, error, exit_code>>

\* a descent that offers the listing it already has again
main_descend_stale ==
    /\ pc = "pick"
    /\ \E r \in FzfResults(lines) :
        LET kc == pick_with_fzf(PrintLines(r[2]))
            the_key == kc[1]
            the_choice == kc[2]
            dir_path == Path_join(remote_dir, SubSeq(the_choice, 1, Len(the_choice) - 1))
        IN
        /\ the_choice # << >>
        /\ the_choice # ParentMarker
        /\ endswith(the_choice, SL)
        /\ the_key # ctrl_d
        /\ Len(path_parts(dir_path)) <= MaxDepth
        /\ Picked(r)
        /\ remote_dir' = dir_path
    /\ ups' = NotCounting
    /\ pc' = "pick"
    /\ UNCHANGED <<config, listed_dir, ssh_cmd, ls_out, items, lines, outcome,
                   req, mkdir_done, cmd, error, exit_code>>

\* is_dir and key != "ctrl-d": remote_dir = dir_path; continue
main_descend ==
    /\ pc = "pick"
    /\ \E r \in FzfResults(lines) :
        LET kc == pick_with_fzf(PrintLines(r[2]))
            the_key == kc[1]
            the_choice == kc[2]
            dir_path == Path_join(remote_dir, SubSeq(the_choice, 1, Len(the_choice) - 1))
        IN
        /\ the_choice # << >>
        /\ the_choice # ParentMarker
        /\ endswith(the_choice, SL)
        /\ the_key # ctrl_d
        /\ Len(path_parts(dir_path)) <= MaxDepth
        /\ Picked(r)
        /\ remote_dir' = dir_path
    /\ ups' = NotCounting
    /\ pc' = "list"
    /\ UNCHANGED <<config, listed_dir, ssh_cmd, ls_out, items, lines, outcome,
                   req, mkdir_done, cmd, error, exit_code>>

\* is_dir and key == "ctrl-d": download(..., dir_path, ..., is_dir=True)
main_download_dir ==
    /\ pc = "pick"
    /\ \E r \in FzfResults(lines) :
        LET kc == pick_with_fzf(PrintLines(r[2]))
            the_key == kc[1]
            the_choice == kc[2]
            dir_path == Path_join(remote_dir, SubSeq(the_choice, 1, Len(the_choice) - 1))
        IN
        /\ the_choice # << >>
        /\ the_choice # ParentMarker
        /\ endswith(the_choice, SL)
        /\ the_key = ctrl_d
        /\ Picked(r)
        /\ req' = [remote_path |-> dir_path, is_dir |-> TRUE, set |-> TRUE]
    /\ outcome' = "DirectoryDownloadRequested"
    /\ pc' = "mkdir"
    /\ UNCHANGED <<config, remote_dir, listed_dir, ssh_cmd, ls_out, items,
                   lines, ups, mkdir_done, cmd, error, exit_code>>

\* otherwise: download(..., file_path, ..., is_dir=False)
main_download_file ==
    /\ pc = "pick"
    /\ \E r \in FzfResults(lines) :
        LET the_choice == pick_with_fzf(PrintLines(r[2]))[2]
            file_path == Path_join(remote_dir, the_choice)
        IN
        /\ the_choice # << >>
        /\ the_choice # ParentMarker
        /\ ~endswith(the_choice, SL)
        /\ Picked(r)
        /\ req' = [remote_path |-> file_path, is_dir |-> FALSE, set |-> TRUE]
    /\ outcome' = "FileDownloadRequested"
    /\ pc' = "mkdir"
    /\ UNCHANGED <<config, remote_dir, listed_dir, ssh_cmd, ls_out, items,
                   lines, ups, mkdir_done, cmd, error, exit_code>>

\* os.makedirs(local_dest, exist_ok=True) returns
makedirs ==
    /\ pc = "mkdir"
    /\ mkdir_done' = TRUE
    /\ pc' = "xfer"
    /\ UNCHANGED <<config, browsed, remote_dir, listed_dir, items, lines,
                   fzf_lines, fzf_status, last_desc, outcome, req, cmd, error, exit_code>>

\* a failure of os.makedirs that is ignored
makedirs_fails_ignored ==
    /\ pc = "mkdir"
    /\ error' = "OSError"
    /\ pc' = "xfer"
    /\ UNCHANGED <<config, browsed, remote_dir, listed_dir, items, lines,
                   fzf_lines, fzf_status, last_desc, outcome, req, mkdir_done,
                   cmd, exit_code>>

\* os.makedirs raises OSError, and the exception leaves main
makedirs_fails ==
    /\ pc = "mkdir"
    /\ error' = "OSError"
    /\ exit_code' = 1
    /\ pc' = "done"
    /\ UNCHANGED <<config, browsed, remote_dir, listed_dir, items, lines,
                   fzf_lines, fzf_status, last_desc, outcome, req, mkdir_done, cmd>>

\* a download after which the loop goes on: continue instead of return 0
check_call_continues ==
    /\ pc = "xfer"
    /\ cmd' = download(NAS_HOST, USE_RSYNC, req.remote_path, LOCAL_DEST,
                       req.is_dir)
    /\ pc' = "list"
    /\ UNCHANGED <<config, browsed, remote_dir, listed_dir, items, lines,
                   fzf_lines, fzf_status, last_desc, outcome, req, mkdir_done,
                   error, exit_code>>

\* subprocess.check_call(cmd) returns: print("Done."); return 0
check_call ==
    /\ pc = "xfer"
    /\ cmd' = download(NAS_HOST, USE_RSYNC, req.remote_path, LOCAL_DEST,
                       req.is_dir)
    /\ exit_code' = 0
    /\ pc' = "done"
    /\ UNCHANGED <<config, browsed, remote_dir, listed_dir, items, lines,
                   fzf_lines, fzf_status, last_desc, outcome, req, mkdir_done, error>>

\* subprocess.check_call(cmd) raises CalledProcessError: the tool exits
\* nonzero, and the exception leaves main
check_call_fails ==
    /\ pc = "xfer"
    /\ cmd' = download(NAS_HOST, USE_RSYNC, req.remote_path, LOCAL_DEST,
                       req.is_dir)
    /\ error' = "CalledProcessError"
    /\ exit_code' = 1
    /\ pc' = "done"
    /\ UNCHANGED <<config, browsed, remote_dir, listed_dir, items, lines,
                   fzf_lines, fzf_status, last_desc, outcome, req, mkdir_done>>

\* subprocess.check_call(cmd) raises OSError: the tool cannot be started,
\* and the exception leaves main
check_call_not_started ==
    /\ pc = "xfer"
    /\ cmd' = download(NAS_HOST, USE_RSYNC, req.remote_path, LOCAL_DEST,
                       req.is_dir)
    /\ error' = "OSError"
    /\ exit_code' = 1
    /\ pc' = "done"
    /\ UNCHANGED <<config, browsed, remote_dir, listed_dir, items, lines,
                   fzf_lines, fzf_status, last_desc, outcome, req, mkdir_done>>

Next ==
    \/ main_list_remote
    \/ main_list_remote_fails
    \/ pick_with_fzf_not_started
    \/ main_no_selection
    \/ main_parent
    \/ main_descend
    \/ main_download_dir
    \/ main_download_file
    \/ makedirs
    \/ makedirs_fails
    \/ check_call
    \/ check_call_fails
    \/ check_call_not_started

Spec == Init /\ [][Next]_vars

\* The lister and the renderer alone, on listings of up to MaxLsLines lines.
NextRender == main_list_remote_long

SpecRender == Init /\ [][NextRender]_vars

\* The listing command alone, for remote roots that have blanks, quotes
\* and command separators in them.
QuoteChars == {"a", SL, SP, SQ, ";"}

QuoteRoots == { <<SL>> \o t : t \in SeqsUpTo(QuoteChars, MaxQuoteLen) }

InitQuote ==
    /\ REMOTE_ROOT \in QuoteRoots
    /\ USE_RSYNC = TRUE
    /\ Started

NextQuote ==
    \/ main_list_remote
    \/ main_list_remote_fails

SpecQuote == InitQuote /\ [][NextQuote]_vars

----
\* Vocabulary of the properties, stated on what the picker printed and on
\* the path strings, independently of the program's decoding and of pathlib.

\* the picker has run in this iteration and exited 0
Accepted == fzf_status = FZF_OK /\ Len(fzf_lines) >= 1

\* the selection line and the modifier line of the picker's output
SelLine(out) == IF Len(out) = 1 THEN out[1] ELSE out[2]
KeyLine(out) == IF Len(out) = 1 THEN << >> ELSE out[1]

\* the selection is a line of the listing made in this iteration
PickedListed == Accepted /\ SelLine(fzf_lines) \in Range(items)

DropLast(s) == SubSeq(s, 1, Len(s) - 1)

\* c / name, for a directory path c and a single component name
Child(c, name) == IF endswith(c, SL) THEN c \o name ELSE c \o <<SL>> \o name

RECURSIVE DropTrailingSeps(_)
DropTrailingSeps(s) ==
    IF Len(s) > 1 /\ endswith(s, SL) THEN DropTrailingSeps(DropLast(s)) ELSE s

RECURSIVE DropTrailingName(_)
DropTrailingName(s) ==
    IF s = << >> \/ endswith(s, SL) THEN s ELSE DropTrailingName(DropLast(s))

\* dirname(c) as POSIX defines it, for an absolute path c with one leading
\* separator
Dirname(c) == DropTrailingSeps(DropTrailingName(DropTrailingSeps(c)))

IsAbsolute(p) == p # << >> /\ p[1] = SL

NoTransfer == req = NoReq /\ cmd = NoCmd /\ ~mkdir_done

Browsing == pc \in {"list", "pick"} /\ outcome = "none" /\ exit_code = RUNNING

----
\* C1: a pick that prints zero lines ends the session with NoSelection and
\* exit code 0; no transfer is made and nothing (no listing, no pick) can
\* follow.
C1_ZeroLinesNoSelection ==
    (fzf_status # NOT_RUN /\ fzf_lines = << >>) =>
        /\ pc = "done"
        /\ outcome = "NoSelection"
        /\ exit_code = 0
        /\ error = "none"
        /\ NoTransfer
        /\ ~ENABLED Next

C1_Witness ==
    /\ fzf_status = FZF_INTERRUPT
    /\ fzf_lines = << >>
    /\ pc = "done"
    /\ remote_dir # REMOTE_ROOT

\* C2 (as claimed): a pick of any listed directory line d/ under ctrl-d ends
\* the session with DirectoryDownloadRequested(currentDir / d) and a
\* directory transfer request.
C2_AsClaimed ==
    (PickedListed /\ Len(fzf_lines) >= 2 /\ KeyLine(fzf_lines) = ctrl_d
        /\ endswith(SelLine(fzf_lines), SL)) =>
        /\ outcome = "DirectoryDownloadRequested"
        /\ req = [remote_path |-> Child(listed_dir, DropLast(SelLine(fzf_lines))),
                  is_dir |-> TRUE, set |-> TRUE]

\* C3 (as claimed): a pick of any listed file line f, under any modifier,
\* ends the session with FileDownloadRequested(currentDir / f) and a file
\* transfer request.
C3_AsClaimed ==
    (PickedListed /\ ~endswith(SelLine(fzf_lines), SL)) =>
        /\ outcome = "FileDownloadRequested"
        /\ req = [remote_path |-> Child(listed_dir, SelLine(fzf_lines)),
                  is_dir |-> FALSE, set |-> TRUE]

\* C4 (as claimed): a plain-confirm pick of any listed directory line d/
\* sets currentDir to currentDir / d, stays in Browsing and makes no
\* transfer.
C4_AsClaimed ==
    (fzf_status = FZF_OK /\ IsPlainDirPick(fzf_lines, items)) =>
        /\ Browsing
        /\ remote_dir = Child(listed_dir, DropLast(SelLine(fzf_lines)))
        /\ NoTransfer

\* C5: a pick of the parent marker, under any modifier, stays in Browsing
\* and makes no transfer; currentDir becomes dirname(currentDir), and is
\* left as it is when it is "/".
C5_ParentMarker ==
    (Accepted /\ SelLine(fzf_lines) = ParentMarker) =>
        /\ Browsing
        /\ pc = "list"
        /\ NoTransfer
        /\ remote_dir = IF listed_dir = <<SL>> THEN <<SL>>
                        ELSE Dirname(listed_dir)

C5_Witness ==
    /\ fzf_status = FZF_OK
    /\ fzf_lines = <<ctrl_d, ParentMarker>>
    /\ listed_dir = <<SL, "a">>
    /\ remote_dir = <<SL>>
    /\ pc = "list"

\* C6: with use_rsync the transfer command does not depend on is_dir; with
\* scp it has -r exactly for a directory request and always has -p; both
\* copy host:remotePath to localDest/.
C6_TransferDispatch ==
    cmd # NoCmd =>
        /\ cmd.src = NAS_HOST \o <<":">> \o req.remote_path
        /\ cmd.dst = LOCAL_DEST \o <<SL>>
        /\ USE_RSYNC =>
            /\ cmd.tool = "rsync"
            /\ cmd.flags = <<"-avP", "--protect-args">>
            /\ download(NAS_HOST, TRUE, req.remote_path, LOCAL_DEST, TRUE)
               = download(NAS_HOST, TRUE, req.remote_path, LOCAL_DEST, FALSE)
        /\ ~USE_RSYNC =>
            /\ cmd.tool = "scp"
            /\ ("-r" \in Range(cmd.flags)) <=> req.is_dir
            /\ "-p" \in Range(cmd.flags)

C6_Witness ==
    /\ cmd # NoCmd
    /\ ~USE_RSYNC
    /\ ~req.is_dir
    /\ exit_code = 0

\* C7 (as claimed): a run ends with exit code 0 only after a successful
\* download or a cancellation, and never when a listing failed, the picker
\* exited with its error status, or the transfer tool failed.
C7_AsClaimed ==
    pc = "done" =>
        /\ exit_code = 0 =>
            \/ cmd # NoCmd /\ error = "none"
            \/ outcome = "NoSelection"
        /\ (error # "none" \/ fzf_status = FZF_ERROR) => exit_code # 0

\* C8: when a listing fails the run is over at once with a fatal error:
\* nothing can follow (no retry), the picker has not run in that iteration,
\* currentDir is still the directory whose listing failed, and no transfer
\* has been or will be made.
C8_ListingFailureAborts ==
    error = "RuntimeError" =>
        /\ pc = "done"
        /\ exit_code # 0
        /\ ~ENABLED Next
        /\ fzf_status = NOT_RUN
        /\ remote_dir = listed_dir
        /\ NoTransfer

C8_Witness ==
    /\ error = "RuntimeError"
    /\ pc = "done"
    /\ remote_dir # REMOTE_ROOT

\* C9 (as claimed): a pick of the parent marker made right after a plain
\* confirm of a listed directory line in directory c puts currentDir back
\* to exactly c.
C9_AsClaimed ==
    [][(pc = "pick" /\ last_desc # << >> /\ fzf_status' = FZF_OK
            /\ Len(fzf_lines') >= 1 /\ SelLine(fzf_lines') = ParentMarker)
        => remote_dir' = last_desc[1]]_vars

\* C10: currentDir is an absolute path in every state of the session.
C10_AlwaysAbsolute == IsAbsolute(REMOTE_ROOT) => IsAbsolute(remote_dir)

C10_Witness ==
    /\ pc = "list"
    /\ last_desc # << >>
    /\ remote_dir # REMOTE_ROOT
    /\ Len(remote_dir) < Len(REMOTE_ROOT)

\* a line that is empty or made of white space only
IsBlank(s) == \A i \in 1..Len(s) : IsSpace(s[i])

\* the lines of a listing that are not empty, in their order
NonEmptyLines(out) == SelectSeq(out, LAMBDA x : x # << >>)

\* the name a listed entry line stands for, and whether it is a directory
EntryIsDir(e) == endswith(e, SL)
EntryName(e) == IF EntryIsDir(e) THEN DropLast(e) ELSE e

\* the i-th ancestor of an absolute path, and the number of its ancestors
RECURSIVE Ancestor(_, _)
Ancestor(p, i) == IF i = 0 THEN p ELSE Ancestor(Dirname(p), i - 1)

RECURSIVE Depth(_)
Depth(p) == IF DropTrailingSeps(p) = <<SL>> THEN 0 ELSE 1 + Depth(Dirname(p))

Downloads == {"DirectoryDownloadRequested", "FileDownloadRequested"}

\* C11: the candidate list offered to the picker for a listing of n entries
\* has exactly n + 1 lines: the parent marker first, then the n entries in
\* the order of the listing, each rendered as the lister returned it
\* (a directory with its trailing separator, a file without).
C11_CandidateList ==
    pc = "pick" =>
        /\ Len(lines) = Len(items) + 1
        /\ lines[1] = ParentMarker \o <<NL>>
        /\ \A i \in 1..Len(items) : lines[i + 1] = items[i] \o <<NL>>
        /\ Candidates(lines) = <<ParentMarker>> \o items

C11_Witness ==
    /\ pc = "pick"
    /\ Len(items) = 3
    /\ EntryIsDir(items[1])
    /\ ~EntryIsDir(items[2])
    /\ items[3] # items[1]

\* C12 (as claimed): the lister returns the lines of the raw output that
\* are not empty, in their order: it drops exactly the empty lines.
C12_AsClaimed == pc = "pick" => items = NonEmptyLines(ls_out)

\* C13 (as claimed): of the lines the picker prints, zero give no
\* selection; one gives that line as the selection and the plain modifier;
\* two or more give the first line as the modifier and the second as the
\* selection.
C13_AsClaimed ==
    fzf_status # NOT_RUN =>
        /\ Len(fzf_lines) = 0 => choice = << >>
        /\ Len(fzf_lines) = 1 => key = << >> /\ choice = fzf_lines[1]
        /\ Len(fzf_lines) >= 2 => key = fzf_lines[1] /\ choice = fzf_lines[2]

\* C14 (as claimed): the remote shell reads the listing command as
\* cd <the listed directory> && ls -1p, with the directory path one
\* uninterpreted word.
C14_AsClaimed ==
    ssh_cmd # << >> =>
        sh_tokens(ssh_remote_command(ssh_cmd))
            = << Word(<<"c", "d">>), Word(listed_dir), Operator(<<"&", "&">>),
                 Word(<<"l", "s">>), Word(<<"-", "1", "p">>) >>

\* C15: the local destination directory is ensured before the transfer
\* tool is invoked; when ensuring it fails (a request was made and the
\* process is over without the directory) the process has ended with an
\* error, nothing is retried and the transfer tool is never invoked.
C15_DestinationFirst ==
    /\ pc = "xfer" => mkdir_done
    /\ cmd # NoCmd => mkdir_done
    /\ (pc = "done" /\ req.set /\ ~mkdir_done) =>
        /\ error = "OSError"
        /\ exit_code # 0
        /\ cmd = NoCmd
        /\ ~ENABLED Next

C15_Witness ==
    /\ error = "OSError"
    /\ pc = "done"
    /\ ~mkdir_done
    /\ req.set
    /\ req.is_dir
    /\ ~USE_RSYNC
    /\ remote_dir # REMOTE_ROOT

\* C16: the transfer tool is invoked only for the request of a terminating
\* download pick, the process ends with that invocation (so there is at
\* most one), and once the session has an outcome no listing and no pick
\* follows.
C16_SingleTransfer ==
    /\ cmd # NoCmd =>
        /\ pc = "done"
        /\ outcome \in Downloads
        /\ req.set
        /\ cmd = download(NAS_HOST, USE_RSYNC, req.remote_path, LOCAL_DEST,
                          req.is_dir)
        /\ ~ENABLED Next
    /\ pc \in {"mkdir", "xfer"} => outcome \in Downloads /\ req.set /\ cmd = NoCmd
    /\ outcome # "none" => pc \in {"mkdir", "xfer", "done"}

C16_Witness ==
    /\ cmd # NoCmd
    /\ error = "CalledProcessError"
    /\ outcome = "FileDownloadRequested"
    /\ remote_dir # REMOTE_ROOT

\* C17: every iteration makes one listing of the current directory (the
\* command issued changes into currentDir as it is then), then one pick
\* on the candidates of that listing, then one transition: a pick is
\* pending only on a fresh listing of currentDir on which no pick has been
\* made, and no listing is made twice without a pick in between.
C17_ListThenPick ==
    /\ pc = "pick" =>
        /\ fzf_status = NOT_RUN
        /\ listed_dir = remote_dir
        /\ sh_tokens(ssh_remote_command(ssh_cmd))[2] = Word(remote_dir)
        /\ items = list_remote(PrintLines(ls_out))
        /\ lines = candidate_lines(items)
    /\ pc = "list" =>
        \/ ssh_cmd = << >> /\ listed_dir = << >> /\ remote_dir = REMOTE_ROOT
        \/ fzf_status # NOT_RUN
    /\ fzf_status # NOT_RUN =>
        /\ pc # "pick"
        /\ sh_tokens(ssh_remote_command(ssh_cmd))[2] = Word(listed_dir)
        /\ lines = candidate_lines(items)

C17_Witness ==
    /\ pc = "pick"
    /\ choice = ParentMarker
    /\ last_desc # << >>
    /\ listed_dir = remote_dir
    /\ remote_dir # REMOTE_ROOT

\* C18 (as claimed): when the session ends with a download and the picker
\* returned one of the candidate lines, the requested path is currentDir
\* joined with the exact name of an entry of the listing, and isDirectory
\* is whether that entry was listed as a directory.
C18_AsClaimed ==
    (outcome \in Downloads /\ Accepted
        /\ SelLine(fzf_lines) \in Range(Candidates(lines))) =>
        \E i \in 1..Len(items) :
            /\ req.remote_path = Child(listed_dir, EntryName(items[i]))
            /\ req.is_dir = EntryIsDir(items[i])

\* C19: the parent marker is offered in every iteration, at remoteRoot
\* too; after i consecutive parent selections from remoteRoot currentDir
\* is the i-th ancestor of remoteRoot, which is "/" once i is the depth
\* of remoteRoot.
C19_AscendAboveRoot ==
    /\ pc = "pick" =>
        /\ lines # << >>
        /\ lines[1] = ParentMarker \o <<NL>>
    /\ ups # NotCounting =>
        /\ ups <= Depth(REMOTE_ROOT)
        /\ remote_dir = Ancestor(REMOTE_ROOT, ups)
        /\ ups = Depth(REMOTE_ROOT) /\ ups > 0 => remote_dir = <<SL>>

C19_Witness ==
    /\ Depth(REMOTE_ROOT) = 2
    /\ ups = 2
    /\ remote_dir = <<SL>>
    /\ outcome = "FileDownloadRequested"
    /\ req.remote_path = <<SL, "f">>

\* C20: the session ends with NoSelection (exit code 0, no transfer)
\* exactly when the decoded selection is empty, which is exactly when the
\* picker printed nothing or the selection line it printed is empty or
\* white space only, whatever the modifier; any other selection ascends,
\* descends or requests a download.
C20_NoSelectionIffBlank ==
    fzf_status # NOT_RUN =>
        LET blank == fzf_lines = << >> \/ IsBlank(SelLine(fzf_lines)) IN
        /\ blank <=> choice = << >>
        /\ choice = << >> <=> outcome = "NoSelection"
        /\ outcome = "NoSelection" =>
            /\ pc = "done"
            /\ exit_code = 0
            /\ error = "none"
            /\ NoTransfer
        /\ ~blank => \/ pc = "list" /\ outcome = "none"
                     \/ outcome \in Downloads

C20_Witness ==
    /\ fzf_lines = <<ctrl_d, <<SP>> >>
    /\ outcome = "NoSelection"
    /\ pc = "done"

====
